---- MODULE Spec2Model ----
(***************************************************************************)
(* Model of the DevEvents data layer:                                      *)
(*   - lib/mongodb.ts      connectDB, the cached connection handle         *)
(*   - database/booking.model.ts   the Booking schema and pre-save hook    *)
(*   - database/event.model.ts     the Event schema and pre-save hook      *)
(* Each subsystem has its own specification (SpecConn, SpecBooking,        *)
(* SpecEvent) over the shared variables; SpecSchema applies the schemas'   *)
(* validators and the slug derivation to one value. SpecConnFair adds the  *)
(* event loop's fairness to SpecConn, SpecReload starts before the first   *)
(* evaluation of lib/mongodb.ts and reloads it, and SpecBookingKept is     *)
(* SpecBooking without the deletion of Events.                             *)
(***************************************************************************)
EXTENDS Integers, Sequences, FiniteSets, TLC

VARIABLES
    \* ---- lib/mongodb.ts ----
    cached,      \* the MongooseCache object: [conn, promise]
    attempts,    \* the mongoose.connect calls made so far, in order
    waiters,     \* per attempt, the connectDB calls suspended on its promise
    call,        \* per caller, the state of its latest connectDB call
    mq,          \* the JavaScript microtask queue
    running,     \* TRUE while caller code (a task or a microtask) executes
    globalMongoose, \* global.mongoose: undefined, or a reference to the cache object
    loads,       \* how many times the module lib/mongodb.ts has been evaluated
    \* ---- the document store ----
    eventDocs,   \* the Event collection: records [id, slug]
    bookingDocs, \* the Booking collection: records [id, eventId, email]
    \* ---- database/booking.model.ts ----
    booking,     \* per Booking document object, its fields and save state
    \* ---- database/event.model.ts ----
    creation,    \* per Event document being created, its fields and save state
    now,         \* the clock read by Date.now()
    \* ---- the schemas' pure functions ----
    probe        \* one value handed to a validator or to the slug derivation

connVars == <<cached, attempts, waiters, call, mq, running>>
storeVars == <<eventDocs, bookingDocs>>
bookingVars == <<booking>>
eventVars == <<creation, now>>
probeVars == <<probe>>
loadVars == <<globalMongoose, loads>>

vars == <<cached, attempts, waiters, call, mq, running, eventDocs, bookingDocs, booking,
          creation, now, probe, globalMongoose, loads>>

NULL == "null"
\* The null value of cached.promise (promises are named by their attempt's number).
NoPromise == 0

(***************************************************************************)
(* lib/mongodb.ts : connectDB                                              *)
(***************************************************************************)

\* Bounds of the connection model.
NumCallers == 2
MaxAttempts == 3
MaxUserJobs == 1
MaxLoads == 2

Callers == 1..NumCallers
AttemptIds == 1..MaxAttempts

\* The value mongoose.connect resolves with: the mongoose singleton.
Mongoose == "mongoose"
\* The reasons mongoose.connect may reject with.
Errors == {"E1", "E2"}

\* let cached = global.mongoose || { conn: null, promise: null }
InitialCache == [conn |-> NULL, promise |-> NoPromise]

IdleCall == [pc |-> "idle", awaited |-> 0, result |-> NULL, triggered |-> 0, module |-> 0]

\* The values of global.mongoose: undefined, or the one cache object.
NoGlobal == "undefined"
Published == "cached"

\* The state once lib/mongodb.ts has been evaluated for the first time.
ConnIdle ==
    /\ cached = InitialCache
    /\ globalMongoose = Published
    /\ loads = 1
    /\ attempts = <<>>
    /\ waiters = [a \in AttemptIds |-> <<>>]
    /\ call = [c \in Callers |-> IdleCall]
    /\ mq = <<>>
    /\ running = FALSE

\* Before lib/mongodb.ts is evaluated the binding `cached` does not exist and
\* global.mongoose is undefined.
NoCache == [conn |-> NoGlobal, promise |-> NoPromise]

Unloaded ==
    /\ cached = NoCache
    /\ globalMongoose = NoGlobal
    /\ loads = 0
    /\ attempts = <<>>
    /\ waiters = [a \in AttemptIds |-> <<>>]
    /\ call = [c \in Callers |-> IdleCall]
    /\ mq = <<>>
    /\ running = FALSE

\* A module evaluation that always starts from a fresh cache object.
LoadCacheFresh(global, cache) == InitialCache

\* let cached = global.mongoose || { conn: null, promise: null }
LoadCache(global, cache) == IF global # NoGlobal THEN cache ELSE InitialCache

\* if (!global.mongoose) { global.mongoose = cached; }
Publish(global) == IF global = NoGlobal THEN Published ELSE global

\* The module lib/mongodb.ts is evaluated: on first import, and again on every
\* reload of the module (hot reload in development).
LoadModule ==
    /\ running
    /\ loads < MaxLoads
    /\ cached' = LoadCache(globalMongoose, cached)
    /\ globalMongoose' = Publish(globalMongoose)
    /\ loads' = loads + 1
    /\ UNCHANGED <<attempts, waiters, call, mq, running, storeVars, bookingVars, eventVars, probeVars>>

UserJob == [kind |-> "user", id |-> 0]
ThenJob(a) == [kind |-> "then", id |-> a]
ResumeJob(c) == [kind |-> "resume", id |-> c]

UserJobsQueued == Cardinality({i \in 1..Len(mq) : mq[i].kind = "user"})

\* A task (timer, request handler, I/O callback of the caller) starts: it can
\* only start when the microtask queue has drained.
StartTask ==
    /\ ~running
    /\ mq = <<>>
    /\ running' = TRUE
    /\ UNCHANGED <<cached, attempts, waiters, call, mq, storeVars, bookingVars, eventVars, probeVars, loadVars>>

\* The running caller code schedules more caller code as a microtask
\* (queueMicrotask, or a reaction to an already settled promise).
Defer ==
    /\ running
    /\ UserJobsQueued < MaxUserJobs
    /\ mq' = Append(mq, UserJob)
    /\ UNCHANGED <<cached, attempts, waiters, call, running, storeVars, bookingVars, eventVars, probeVars, loadVars>>

\* The running caller code returns to the event loop.
EndJob ==
    /\ running
    /\ running' = FALSE
    /\ UNCHANGED <<cached, attempts, waiters, call, mq, storeVars, bookingVars, eventVars, probeVars, loadVars>>

\* The microtask at the head of the queue is caller code.
RunUserJob ==
    /\ ~running
    /\ mq # <<>>
    /\ Head(mq).kind = "user"
    /\ mq' = Tail(mq)
    /\ running' = TRUE
    /\ UNCHANGED <<cached, attempts, waiters, call, storeVars, bookingVars, eventVars, probeVars, loadVars>>

\* if (!cached.promise)
StartsAttempt(cache) == cache.promise = NoPromise

\* The synchronous part of connectDB, up to its await (or its early return).
ConnectDBCall(c) ==
    /\ running
    /\ loads >= 1
    /\ call[c].pc # "awaiting"
    /\ IF cached.conn # NULL
       THEN \* return cached.conn
            /\ call' = [call EXCEPT ![c] = [pc |-> "resolved", awaited |-> 0,
                                            result |-> cached.conn, triggered |-> 0,
                                            module |-> loads]]
            /\ UNCHANGED <<cached, attempts, waiters, mq>>
       ELSE LET new == StartsAttempt(cached)
                a == IF new THEN Len(attempts) + 1 ELSE cached.promise
                atts == IF new
                        THEN Append(attempts, [q |-> "pending", p |-> "pending", value |-> NULL])
                        ELSE attempts
            IN  /\ new => Len(attempts) < MaxAttempts
                /\ attempts' = atts
                \* cached.promise = mongoose.connect(...).then(...)
                /\ cached' = [cached EXCEPT !.promise = a]
                \* await cached.promise
                /\ IF atts[a].p = "pending"
                   THEN /\ waiters' = [waiters EXCEPT ![a] = Append(@, c)]
                        /\ mq' = mq
                   ELSE /\ mq' = Append(mq, ResumeJob(c))
                        /\ waiters' = waiters
                /\ call' = [call EXCEPT ![c] = [pc |-> "awaiting", awaited |-> a,
                                                result |-> NULL,
                                                triggered |-> IF new THEN 1 ELSE 0,
                                                module |-> loads]]
    /\ UNCHANGED <<running, storeVars, bookingVars, eventVars, probeVars, loadVars>>

\* The promise returned by mongoose.connect settles; the reaction registered by
\* .then(...) is queued.
ConnectFulfils(a) ==
    /\ running \/ mq = <<>>
    /\ a \in 1..Len(attempts)
    /\ attempts[a].q = "pending"
    /\ attempts' = [attempts EXCEPT ![a].q = "fulfilled", ![a].value = Mongoose]
    /\ mq' = Append(mq, ThenJob(a))
    /\ UNCHANGED <<cached, waiters, call, running, storeVars, bookingVars, eventVars, probeVars, loadVars>>

ConnectRejects(a, e) ==
    /\ running \/ mq = <<>>
    /\ a \in 1..Len(attempts)
    /\ attempts[a].q = "pending"
    /\ attempts' = [attempts EXCEPT ![a].q = "rejected", ![a].value = e]
    /\ mq' = Append(mq, ThenJob(a))
    /\ UNCHANGED <<cached, waiters, call, running, storeVars, bookingVars, eventVars, probeVars, loadVars>>

\* .then((mongooseInstance) => { return mongooseInstance; })
ThenCallback(mongooseInstance) == mongooseInstance

\* A settlement that wakes only the first of the calls awaiting the promise.
ResumeJobsFirstOnly(cs) == IF cs = <<>> THEN <<>> ELSE <<ResumeJob(Head(cs))>>

RECURSIVE ResumeJobs(_)
ResumeJobs(cs) ==
    IF cs = <<>> THEN <<>> ELSE <<ResumeJob(Head(cs))>> \o ResumeJobs(Tail(cs))

\* The .then reaction runs: cached.promise's promise settles like the connect
\* promise, and the continuations of the calls awaiting it are queued in the
\* order they awaited.
RunThen ==
    /\ ~running
    /\ mq # <<>>
    /\ Head(mq).kind = "then"
    /\ LET a == Head(mq).id
       IN  /\ attempts' = [attempts EXCEPT
                  ![a].p = attempts[a].q,
                  ![a].value = IF attempts[a].q = "fulfilled"
                               THEN ThenCallback(attempts[a].value)
                               ELSE attempts[a].value]
           /\ mq' = Tail(mq) \o ResumeJobs(waiters[a])
           /\ waiters' = [waiters EXCEPT ![a] = <<>>]
    /\ UNCHANGED <<cached, call, running, storeVars, bookingVars, eventVars, probeVars, loadVars>>

\* A connectDB that returns the awaited value without storing it.
CacheConnForgotten(cache, value) == cache

\* cached.conn = await cached.promise;   (the promise fulfilled)
CacheConn(cache, value) == [cache EXCEPT !.conn = value]

\* A catch block that throws a new error of its own instead of the one caught.
ThrowWrapped(error) == "ConnectionError"

\* throw error;
Throw(error) == error

\* catch (error) { cached.promise = null; throw error; }
CatchReset(cache) == [cache EXCEPT !.promise = NoPromise]

\* The continuation of a connectDB call whose awaited promise fulfilled.
ResumeFulfilled ==
    /\ ~running
    /\ mq # <<>>
    /\ Head(mq).kind = "resume"
    /\ LET c == Head(mq).id
           a == call[c].awaited
       IN  /\ attempts[a].p = "fulfilled"
           /\ cached' = CacheConn(cached, attempts[a].value)
           \* return cached.conn
           /\ call' = [call EXCEPT ![c].pc = "resolved", ![c].result = cached'.conn]
    /\ mq' = Tail(mq)
    /\ UNCHANGED <<attempts, waiters, running, storeVars, bookingVars, eventVars, probeVars, loadVars>>

\* The continuation of a connectDB call whose awaited promise rejected.
ResumeRejected ==
    /\ ~running
    /\ mq # <<>>
    /\ Head(mq).kind = "resume"
    /\ LET c == Head(mq).id
           a == call[c].awaited
       IN  /\ attempts[a].p = "rejected"
           /\ cached' = CatchReset(cached)
           \* throw error
           /\ call' = [call EXCEPT ![c].pc = "rejected", ![c].result = Throw(attempts[a].value)]
    /\ mq' = Tail(mq)
    /\ UNCHANGED <<attempts, waiters, running, storeVars, bookingVars, eventVars, probeVars, loadVars>>

(***************************************************************************)
(* Text: strings are sequences of one-character strings                    *)
(***************************************************************************)

\* \s of a JavaScript regular expression, and what String.prototype.trim strips.
Whitespace == {" ", "\t"}

AsciiUpper ==
    <<"A", "B", "C", "D", "E", "F", "G", "H", "I", "J", "K", "L", "M",
      "N", "O", "P", "Q", "R", "S", "T", "U", "V", "W", "X", "Y", "Z">>
AsciiLower ==
    <<"a", "b", "c", "d", "e", "f", "g", "h", "i", "j", "k", "l", "m",
      "n", "o", "p", "q", "r", "s", "t", "u", "v", "w", "x", "y", "z">>
DigitChars == {"0", "1", "2", "3", "4", "5", "6", "7", "8", "9"}

\* String.prototype.toLowerCase, character by character: it follows the
\* Unicode case mapping, so it also lowers letters outside ASCII.
LowerChar(ch) ==
    IF \E i \in 1..Len(AsciiUpper) : AsciiUpper[i] = ch
    THEN AsciiLower[CHOOSE i \in 1..Len(AsciiUpper) : AsciiUpper[i] = ch]
    ELSE IF ch = "É" THEN "é"
    ELSE ch

ToLowerCase(str) == [i \in 1..Len(str) |-> LowerChar(str[i])]

RECURSIVE TrimStart(_)
TrimStart(str) ==
    IF str # <<>> /\ Head(str) \in Whitespace THEN TrimStart(Tail(str)) ELSE str

RECURSIVE TrimEnd(_)
TrimEnd(str) ==
    IF str # <<>> /\ str[Len(str)] \in Whitespace
    THEN TrimEnd(SubSeq(str, 1, Len(str) - 1))
    ELSE str

\* String.prototype.trim
Trim(str) == TrimEnd(TrimStart(str))

(***************************************************************************)
(* database/booking.model.ts                                               *)
(***************************************************************************)

\* Bounds of the booking model.
NumBookings == 1
NumEvents == 2

BookingIds == 1..NumBookings
EventIds == 1..NumEvents

\* An eventId that was never given (undefined).
NoId == 0

\* '  User@Example.COM '
EmailPadded ==
    <<" ", " ", "U", "s", "e", "r", "@", "E", "x", "a", "m", "p", "l", "e",
      ".", "C", "O", "M", " ">>

\* The emails a candidate may carry, before the schema's setters.
EmailInputs == {
    <<" ">>,
    EmailPadded,
    <<"a", "@", "@", "b", ".", "c">> }

\* [^\s@]
EmailAtom(ch) == ch \notin Whitespace /\ ch # "@"

\* A pattern whose middle part may be empty: /^[^\s@]+@[^\s@]*\.[^\s@]+$/
EmailRegexTestLoose(v) ==
    \E i, j \in 1..Len(v) :
        /\ 1 < i /\ i < j /\ j < Len(v)
        /\ v[i] = "@"
        /\ v[j] = "."
        /\ \A k \in 1..Len(v) : (k # i /\ k # j) => EmailAtom(v[k])

\* const emailRegex = /^[^\s@]+@[^\s@]+\.[^\s@]+$/; emailRegex.test(v)
EmailRegexTest(v) ==
    \E i, j \in 1..Len(v) :
        /\ 1 < i /\ i + 1 < j /\ j < Len(v)
        /\ v[i] = "@"
        /\ v[j] = "."
        /\ \A k \in 1..Len(v) : (k # i /\ k # j) => EmailAtom(v[k])

\* A schema without lowercase: true.
EmailSetterTrimOnly(v) == Trim(v)

\* email: { lowercase: true, trim: true }: the setters applied when a value is
\* assigned to the path.
EmailSetter(v) == Trim(ToLowerCase(v))

RequiredEventIdMsg == "Event ID is required"
RequiredEmailMsg == "Email is required"
InvalidEmailMsg == "Invalid email format"
DanglingMsg == "Referenced event does not exist"

\* validate: { validator, message }: what the email validator answers for a
\* value handed to it.
EmailValidate(v) ==
    [accepted |-> EmailRegexTest(v),
     message |-> IF EmailRegexTest(v) THEN "none" ELSE InvalidEmailMsg]

\* A schema without the required validators.
ValidateBookingFormatOnly(d) ==
    IF ~EmailRegexTest(d.email) THEN {InvalidEmailMsg} ELSE {}

\* The schema's validators, run by save() before the pre-save hooks: one
\* message per failing path.
ValidateBooking(d) ==
    (IF d.eventId = NoId THEN {RequiredEventIdMsg} ELSE {})
    \cup
    (IF ~d.hasEmail \/ d.email = <<>> THEN {RequiredEmailMsg}
     ELSE IF ~EmailRegexTest(d.email) THEN {InvalidEmailMsg}
     ELSE {})

NoBooking ==
    [exists |-> FALSE, eventId |-> NoId, hasEmail |-> FALSE, email |-> <<>>,
     isNew |-> TRUE, modified |-> {}, pc |-> "idle", outcome |-> "none",
     errors |-> {}, lookups |-> 0, wroteDangling |-> FALSE]

StoreEmpty ==
    /\ eventDocs = {}
    /\ bookingDocs = {}

BookingIdle == booking = [b \in BookingIds |-> NoBooking]

\* Event.findById(id)
FindById(id) == {d \in eventDocs : d.id = id}

\* new Booking({ eventId, email }): the paths given are set (through their
\* setters) and marked modified.
NewBooking(b, eid, hasEm, em) ==
    /\ ~booking[b].exists
    /\ \A b0 \in BookingIds : b0 < b => booking[b0].exists
    /\ booking' = [booking EXCEPT ![b] =
          [NoBooking EXCEPT
              !.exists = TRUE,
              !.eventId = eid,
              !.hasEmail = hasEm,
              !.email = IF hasEm THEN EmailSetter(em) ELSE <<>>,
              !.modified = (IF eid # NoId THEN {"eventId"} ELSE {})
                           \cup (IF hasEm THEN {"email"} ELSE {})]]
    /\ UNCHANGED <<connVars, storeVars, eventVars, probeVars, loadVars>>

\* A document edited since its last save(): that save's result no longer
\* describes it.
Unsaved(d) ==
    [d EXCEPT !.outcome = "none", !.errors = {}, !.lookups = 0, !.wroteDangling = FALSE]

\* booking.eventId = eid (a change of value marks the path modified)
SetEventId(b, eid) ==
    /\ booking[b].exists
    /\ booking[b].pc = "idle"
    /\ eid # booking[b].eventId
    /\ booking' = [booking EXCEPT ![b] =
          [Unsaved(@) EXCEPT !.eventId = eid, !.modified = @ \cup {"eventId"}]]
    /\ UNCHANGED <<connVars, storeVars, eventVars, probeVars, loadVars>>

\* booking.email = em
SetEmail(b, em) ==
    /\ booking[b].exists
    /\ booking[b].pc = "idle"
    /\ ~(booking[b].hasEmail /\ EmailSetter(em) = booking[b].email)
    /\ booking' = [booking EXCEPT ![b] =
          [Unsaved(@) EXCEPT !.hasEmail = TRUE, !.email = EmailSetter(em),
                             !.modified = @ \cup {"email"}]]
    /\ UNCHANGED <<connVars, storeVars, eventVars, probeVars, loadVars>>

\* A hook that looks the Event up on every save.
IsModifiedAlways(d, path) == TRUE

\* A hook that skips new documents: !this.isNew && this.isModified(path)
IsModifiedAndStored(d, path) == path \in d.modified /\ ~d.isNew

\* this.isModified(path)
IsModified(d, path) == path \in d.modified

\* A hook that calls next() whatever the lookup returned.
AfterLookupAlwaysNext(eventExists) == "next"

\* if (!eventExists) { throw new Error('Referenced event does not exist'); }
\* ... next();
AfterLookup(eventExists) == IF ~eventExists THEN "throw" ELSE "next"

\* A save() whose pre-save hook runs before the validators: the lookup is
\* issued for any document whose eventId is modified.
BookingSaveHookFirst(b) ==
    /\ booking[b].exists
    /\ booking[b].pc = "idle"
    /\ LET d == booking[b]
           errs == ValidateBooking(d)
       IN  booking' = [booking EXCEPT ![b] =
              IF IsModified(d, "eventId")
              THEN [d EXCEPT !.pc = "lookup", !.outcome = "none", !.errors = {},
                             !.lookups = 1]
              ELSE IF errs # {}
              THEN [d EXCEPT !.outcome = "ValidationError", !.errors = errs,
                             !.lookups = 0]
              ELSE [d EXCEPT !.pc = "write", !.outcome = "none", !.errors = {},
                             !.lookups = 0]]
    /\ UNCHANGED <<connVars, storeVars, eventVars, probeVars, loadVars>>

\* booking.save(): the validators run, then the pre-save hook up to its first
\* store operation (the findById, or next() when eventId is not modified).
BookingSave(b) ==
    /\ booking[b].exists
    /\ booking[b].pc = "idle"
    /\ LET d == booking[b]
           errs == ValidateBooking(d)
       IN  booking' = [booking EXCEPT ![b] =
              IF errs # {}
              THEN [d EXCEPT !.outcome = "ValidationError", !.errors = errs,
                             !.lookups = 0]
              ELSE IF IsModified(d, "eventId")
              THEN \* const eventExists = await Event.findById(this.eventId)
                   [d EXCEPT !.pc = "lookup", !.outcome = "none", !.errors = {},
                             !.lookups = 1]
              ELSE \* next()
                   [d EXCEPT !.pc = "write", !.outcome = "none", !.errors = {},
                             !.lookups = 0]]
    /\ UNCHANGED <<connVars, storeVars, eventVars, probeVars, loadVars>>

\* A hook that reads the Event with findByIdAndDelete: the read removes the
\* Event it returns.
FindByIdAndDeleteReturns(b) ==
    /\ booking[b].pc = "lookup"
    /\ LET eventExists == FindById(booking[b].eventId) # {}
       IN  booking' = [booking EXCEPT ![b] =
              IF AfterLookup(eventExists) = "throw"
              THEN [@ EXCEPT !.pc = "idle", !.outcome = DanglingMsg]
              ELSE [@ EXCEPT !.pc = "write"]]
    /\ eventDocs' = eventDocs \ FindById(booking[b].eventId)
    /\ UNCHANGED <<connVars, bookingDocs, eventVars, probeVars, loadVars>>

\* The store answers the findById and the hook goes on.
FindByIdReturns(b) ==
    /\ booking[b].pc = "lookup"
    /\ LET eventExists == FindById(booking[b].eventId) # {}
       IN  booking' = [booking EXCEPT ![b] =
              IF AfterLookup(eventExists) = "throw"
              THEN [@ EXCEPT !.pc = "idle", !.outcome = DanglingMsg]
              ELSE [@ EXCEPT !.pc = "write"]]
    /\ UNCHANGED <<connVars, storeVars, eventVars, probeVars, loadVars>>

\* A save that looks the Event up once more when it writes and refuses to
\* write a Booking whose Event is gone.
BookingWriteRechecked(b) ==
    /\ booking[b].pc = "write"
    /\ LET d == booking[b]
           rec == [id |-> b, eventId |-> d.eventId, email |-> d.email]
       IN  IF FindById(d.eventId) = {}
           THEN /\ booking' = [booking EXCEPT ![b].pc = "idle",
                                              ![b].outcome = DanglingMsg]
                /\ UNCHANGED bookingDocs
           ELSE /\ bookingDocs' = {r \in bookingDocs : r.id # b} \cup {rec}
                /\ booking' = [booking EXCEPT ![b] =
                      [d EXCEPT !.pc = "idle", !.outcome = "saved", !.isNew = FALSE,
                                !.modified = {}, !.wroteDangling = FALSE]]
    /\ UNCHANGED <<connVars, eventDocs, eventVars, probeVars, loadVars>>

\* After next(): save() writes the document (an insert for a new document,
\* an update of the stored one otherwise).
BookingWrite(b) ==
    /\ booking[b].pc = "write"
    /\ LET d == booking[b]
           rec == [id |-> b, eventId |-> d.eventId, email |-> d.email]
       IN  /\ bookingDocs' = {r \in bookingDocs : r.id # b} \cup {rec}
           /\ booking' = [booking EXCEPT ![b] =
                 [d EXCEPT !.pc = "idle", !.outcome = "saved", !.isNew = FALSE,
                           !.modified = {},
                           !.wroteDangling = (FindById(d.eventId) = {})]]
    /\ UNCHANGED <<connVars, eventDocs, eventVars, probeVars, loadVars>>

RECURSIVE Digits(_)
\* The decimal digits of a natural number, as a string.
Digits(n) ==
    LET digit == <<"0", "1", "2", "3", "4", "5", "6", "7", "8", "9">>[(n % 10) + 1]
    IN  IF n < 10 THEN <<digit>> ELSE Digits(n \div 10) \o <<digit>>

\* An Event created by the content process, outside the Booking validator.
EnvCreateEvent(e) ==
    /\ FindById(e) = {}
    /\ eventDocs' = eventDocs \cup {[id |-> e, slug |-> <<"e">> \o Digits(e)]}
    /\ UNCHANGED <<connVars, bookingDocs, bookingVars, eventVars, probeVars, loadVars>>

\* An Event deleted by the content process; no cascade to its Bookings.
EnvDeleteEvent(e) ==
    /\ FindById(e) # {}
    /\ eventDocs' = eventDocs \ FindById(e)
    /\ UNCHANGED <<connVars, bookingDocs, bookingVars, eventVars, probeVars, loadVars>>

(***************************************************************************)
(* database/event.model.ts                                                 *)
(***************************************************************************)

\* Bounds of the event model.
NumCreations == 3
MaxTime == 1

Creations == 1..NumCreations

\* The letters outside ASCII that titles are built from.
NonAsciiLetters == {"é", "É"}

\* The word characters of a Unicode-aware class (\p{L}, \p{N}, _).
UnicodeWordChars ==
    {AsciiUpper[i] : i \in 1..Len(AsciiUpper)} \cup {AsciiLower[i] : i \in 1..Len(AsciiLower)}
        \cup DigitChars \cup {"_"} \cup NonAsciiLetters

\* \w of a JavaScript regular expression without the u flag: [A-Za-z0-9_]
WordChars ==
    {AsciiUpper[i] : i \in 1..Len(AsciiUpper)} \cup {AsciiLower[i] : i \in 1..Len(AsciiLower)}
        \cup DigitChars \cup {"_"}

\* .replace(/[^\w\s-]/g, '')
RemoveSpecial(str) ==
    SelectSeq(str, LAMBDA ch : ch \in WordChars \/ ch \in Whitespace \/ ch = "-")

\* A replacement without the + quantifier: every character of the class
\* becomes a hyphen of its own.
CollapseEach(str, class) ==
    [i \in 1..Len(str) |-> IF str[i] \in class THEN "-" ELSE str[i]]

RECURSIVE CollapseRuns(_, _)
\* Every maximal run of characters of the class is replaced by one hyphen.
CollapseRuns(str, class) ==
    IF str = <<>> THEN <<>>
    ELSE IF Head(str) \in class
         THEN IF Len(str) > 1 /\ str[2] \in class
              THEN CollapseRuns(Tail(str), class)
              ELSE <<"-">> \o CollapseRuns(Tail(str), class)
         ELSE <<Head(str)>> \o CollapseRuns(Tail(str), class)

RECURSIVE StripLeadingHyphens(_)
\* A strip of the leading hyphens only: .replace(/^-+/g, '')
StripLeadingHyphens(str) ==
    IF str # <<>> /\ Head(str) = "-" THEN StripLeadingHyphens(Tail(str)) ELSE str

RECURSIVE StripHyphens(_)
\* .replace(/^-+|-+$/g, '')
StripHyphens(str) ==
    IF str # <<>> /\ Head(str) = "-" THEN StripHyphens(Tail(str))
    ELSE IF str # <<>> /\ str[Len(str)] = "-"
         THEN StripHyphens(SubSeq(str, 1, Len(str) - 1))
         ELSE str

\* The chain with the hyphen runs collapsed before the whitespace runs are
\* replaced.
SlugifyHyphensFirst(title) ==
    StripHyphens(
        CollapseRuns(
            CollapseRuns(RemoveSpecial(Trim(ToLowerCase(title))), {"-"}),
            Whitespace))

\* title.toLowerCase().trim().replace(/[^\w\s-]/g, '').replace(/\s+/g, '-')
\*      .replace(/-+/g, '-').replace(/^-+|-+$/g, '')
Slugify(title) ==
    StripHyphens(
        CollapseRuns(
            CollapseRuns(RemoveSpecial(Trim(ToLowerCase(title))), Whitespace),
            {"-"}))

\* The titles of the Event candidates.
Titles == {
    <<"A", " ", "b">>,
    <<"a", "-", "-", "b", "!">>,
    <<"!", "@">>,
    <<"a", " ", "b", " ", "1">>,
    <<" ">> }

\* A suffix that leaves the hyphen out.
DisambiguateNoHyphen(base, t) == base \o Digits(t)

\* `${baseSlug}-${Date.now()}`
Disambiguate(base, t) == base \o <<"-">> \o Digits(t)

\* A store with no unique index on Event.slug.
NoUniqueIndex(docs, slug) == FALSE

\* The unique index on Event.slug: an insert of a slug already stored is
\* rejected.
UniqueIndexRejects(docs, slug) == \E d \in docs : d.slug = slug

\* A validator that retries a rejected write twice.
MayRetryTwice(retries) == retries < 2

\* A write rejected by the unique index is retried once.
MayRetry(retries) == retries < 1

\* An hour part that lets any second digit follow a 2: ([0-2]?[0-9])
HourMatchLoose(h) ==
    /\ Len(h) \in {1, 2}
    /\ h[Len(h)] \in DigitChars
    /\ Len(h) = 2 => h[1] \in {"0", "1", "2"}

\* ([0-1]?[0-9]|2[0-3])
HourMatch(h) ==
    \/ /\ Len(h) \in {1, 2}
       /\ h[Len(h)] \in DigitChars
       /\ Len(h) = 2 => h[1] \in {"0", "1"}
    \/ /\ Len(h) = 2
       /\ h[1] = "2"
       /\ h[2] \in {"0", "1", "2", "3"}

\* const timeRegex = /^([0-1]?[0-9]|2[0-3]):[0-5][0-9]$/; timeRegex.test(v)
TimeRegexTest(v) ==
    \E k \in 1..Len(v) :
        /\ v[k] = ":"
        /\ HourMatch(SubSeq(v, 1, k - 1))
        /\ Len(v) = k + 2
        /\ v[k + 1] \in {"0", "1", "2", "3", "4", "5"}
        /\ v[k + 2] \in DigitChars

UniqueViolationMsg == "UniqueConstraintViolation"

\* The values a candidate's field may hold: a string, an array of strings,
\* null, or nothing at all.
Str(chars) == [type |-> "string", items |-> chars]
Arr(items) == [type |-> "array", items |-> items]
Null == [type |-> "null", items |-> <<>>]
Undefined == [type |-> "undefined", items |-> <<>>]

StringFields ==
    {"title", "description", "overview", "image", "venue", "location", "date", "time",
     "mode", "audience", "organizer"}
CollectionFields == {"agenda", "tags"}
RequiredFields == StringFields \cup CollectionFields

\* enum: ['online', 'offline', 'hybrid']
Modes == {<<"o", "n", "l", "i", "n", "e">>, <<"o", "f", "f", "l", "i", "n", "e">>, <<"h", "y", "b", "r", "i", "d">>}

\* The messages of the schema's validators.
RequiredMsg ==
    [f \in RequiredFields |->
        CASE f = "title" -> "Title is required"
          [] f = "description" -> "Description is required"
          [] f = "overview" -> "Overview is required"
          [] f = "image" -> "Image is required"
          [] f = "venue" -> "Venue is required"
          [] f = "location" -> "Location is required"
          [] f = "date" -> "Date is required"
          [] f = "time" -> "Time is required"
          [] f = "mode" -> "Mode is required"
          [] f = "audience" -> "Audience is required"
          [] f = "organizer" -> "Organizer is required"
          [] f = "agenda" -> "Agenda is required"
          [] f = "tags" -> "Tags are required"]
EmptyCollectionMsg ==
    [f \in CollectionFields |->
        IF f = "agenda" THEN "Agenda must contain at least one item"
        ELSE "Tags must contain at least one item"]

\* The errors of the validator, with the messages of the schema.
MissingField(name) == [kind |-> "MissingField", field |-> name, message |-> RequiredMsg[name]]
EmptyCollection(name) ==
    [kind |-> "EmptyCollection", field |-> name, message |-> EmptyCollectionMsg[name]]
InvalidEnum(name) == [kind |-> "InvalidEnum", field |-> name, message |-> "none"]
InvalidFormat(name) == [kind |-> "InvalidFormat", field |-> name, message |-> "none"]
NoError == [kind |-> "none", field |-> "none", message |-> "none"]

\* A validator that only looks at the length of what it is given.
LengthValidator(v) == Len(v.items) > 0

\* The validator of agenda and of tags: the value is an array with at least
\* one item.
ArrayValidator(v) == v.type = "array" /\ Len(v.items) > 0

\* What the validator of agenda or tags answers for a value handed to it.
CollectionValidate(f, v) ==
    [accepted |-> ArrayValidator(v),
     error |-> IF ArrayValidator(v) THEN NoError ELSE EmptyCollection(f)]

\* A required check that takes a blank string for a value.
IsMissingUntrimmed(v) == v.type = "undefined" \/ (v.type = "string" /\ v.items = <<>>)

\* The required-field check: the field is absent, or a string that is empty
\* after trimming.
IsMissing(v) == v.type = "undefined" \/ (v.type = "string" /\ Trim(v.items) = <<>>)

\* The error of one field of a candidate, if it has one: the required check
\* comes first, then the shape of the value.
FieldErrors(cand, f) ==
    LET v == cand[f]
    IN  IF IsMissing(v) THEN {MissingField(f)}
        ELSE IF f \in CollectionFields
             THEN (IF ArrayValidator(v) THEN {} ELSE {EmptyCollection(f)})
        ELSE IF f = "mode" /\ ToLowerCase(v.items) \notin Modes THEN {InvalidEnum(f)}
        ELSE IF f = "time" /\ ~TimeRegexTest(v.items) THEN {InvalidFormat(f)}
        ELSE {}

\* The validation of a candidate: one error for each field that fails.
ValidateEvent(cand) == UNION {FieldErrors(cand, f) : f \in RequiredFields}

\* A candidate every field of which is valid.
ValidCandidate ==
    [f \in RequiredFields |->
        CASE f = "title" -> Str(<<"A", " ", "b">>)
          [] f = "time" -> Str(<<"0", "9", ":", "0", "0">>)
          [] f = "mode" -> Str(<<"O", "n", "l", "i", "n", "e">>)
          [] f \in CollectionFields -> Arr(<<"a">>)
          [] OTHER -> Str(<<"a">>)]

\* The valid candidate with another title.
CandidateTitled(title) == [ValidCandidate EXCEPT !["title"] = Str(title)]

NoCreation ==
    [pc |-> "idle", title |-> <<>>, base |-> <<>>, slug |-> <<>>, retries |-> 0,
     error |-> "none", errors |-> {}, sawExisting |-> FALSE, rejections |-> 0]

EventIdle ==
    /\ creation = [p \in Creations |-> NoCreation]
    /\ now = 0

\* Date.now() advances.
Tick ==
    /\ now < MaxTime
    /\ now' = now + 1
    /\ UNCHANGED <<connVars, storeVars, bookingVars, creation, probeVars, loadVars>>

\* event.save() of a new Event: the candidate is validated; if it is valid,
\* the slug is derived from its title and the uniqueness read is issued.
EventSave(p, cand) ==
    /\ creation[p].pc = "idle"
    /\ creation[p].error = "none"
    /\ creation' = [creation EXCEPT ![p] =
          IF ValidateEvent(cand) # {}
          THEN [@ EXCEPT !.title = Trim(cand["title"].items),
                         !.error = "ValidationError", !.errors = ValidateEvent(cand)]
          ELSE [@ EXCEPT !.pc = "slugRead", !.title = Trim(cand["title"].items),
                         !.base = Slugify(cand["title"].items),
                         !.slug = Slugify(cand["title"].items)]]
    /\ UNCHANGED <<connVars, storeVars, bookingVars, now, probeVars, loadVars>>

\* The store answers the uniqueness read: a slug already taken gets a suffix
\* derived from the current time and is checked again, a free one goes to
\* the write.
SlugLookup(p) ==
    /\ creation[p].pc = "slugRead"
    /\ creation' = [creation EXCEPT ![p] =
          IF \E d \in eventDocs : d.slug = creation[p].slug
          THEN [@ EXCEPT !.slug = Disambiguate(creation[p].base, now), !.sawExisting = TRUE]
          ELSE [@ EXCEPT !.pc = "write"]]
    /\ UNCHANGED <<connVars, storeVars, bookingVars, now, probeVars, loadVars>>

\* The store inserts the Event, or rejects a slug already stored; a rejected
\* write is retried with a fresh suffix, and a rejected retry is returned to
\* the caller.
EventWrite(p) ==
    /\ creation[p].pc = "write"
    /\ IF UniqueIndexRejects(eventDocs, creation[p].slug)
       THEN /\ creation' = [creation EXCEPT ![p] =
                  IF MayRetry(@.retries)
                  THEN [@ EXCEPT !.slug = Disambiguate(creation[p].base, now),
                                 !.retries = @ + 1, !.rejections = @ + 1]
                  ELSE [@ EXCEPT !.pc = "failed", !.error = UniqueViolationMsg,
                                 !.rejections = @ + 1]]
            /\ UNCHANGED eventDocs
       ELSE /\ eventDocs' = eventDocs \cup {[id |-> p, slug |-> creation[p].slug]}
            /\ creation' = [creation EXCEPT ![p].pc = "done"]
    /\ UNCHANGED <<connVars, bookingDocs, bookingVars, now, probeVars, loadVars>>

(***************************************************************************)
(* The schemas' pure functions, applied to one value                       *)
(***************************************************************************)

\* Bound of the titles handed to the slug derivation.
MaxTitleLen == 4

\* Every string over an alphabet, up to a length.
StringsUpTo(alphabet, n) == UNION {[1..k -> alphabet] : k \in 0..n}

\* The characters titles are built from: an upper-case letter, an
\* underscore, a space, a hyphen, a symbol and a letter outside ASCII.
TitleAlphabet == {"A", "_", " ", "-", "!", "é"}

\* The titles of the slug generation tests.
\* 'AWS re:Invent 2025'
TitleAws ==
    <<"A", "W", "S", " ", "r", "e", ":", "I", "n", "v", "e", "n", "t", " ",
      "2", "0", "2", "5">>
\* 'Event   With   Spaces'
TitleSpaces ==
    <<"E", "v", "e", "n", "t", " ", " ", " ", "W", "i", "t", "h", " ", " ",
      " ", "S", "p", "a", "c", "e", "s">>
\* '---Event Title---'
TitleHyphens ==
    <<"-", "-", "-", "E", "v", "e", "n", "t", " ", "T", "i", "t", "l", "e",
      "-", "-", "-">>
\* '!@#$%^&*()'
TitleSymbols ==
    <<"!", "@", "#", "$", "%", "^", "&", "*", "(", ")">>
\* 'Événement Spécial 2025'
TitleUnicode ==
    <<"É", "v", "é", "n", "e", "m", "e", "n", "t", " ", "S", "p", "é", "c",
      "i", "a", "l", " ", "2", "0", "2", "5">>
\* 'Event @ 2025! #Tech $Conference'
TitleSpecial ==
    <<"E", "v", "e", "n", "t", " ", "@", " ", "2", "0", "2", "5", "!", " ",
      "#", "T", "e", "c", "h", " ", "$", "C", "o", "n", "f", "e", "r", "e",
      "n", "c", "e">>

TitleExamples ==
    {TitleAws, TitleSpaces, TitleHyphens, TitleSymbols, TitleUnicode, TitleSpecial}

TitleInputs == StringsUpTo(TitleAlphabet, MaxTitleLen) \cup TitleExamples

NoProbe ==
    [kind |-> "none", input |-> <<>>, applied |-> 0, output |-> <<>>, reapplied |-> <<>>]

ProbeIdle == probe = NoProbe

TitleProbes == {[NoProbe EXCEPT !.kind = "title", !.input = t] : t \in TitleInputs}

\* The pre-save hook derives the slug of the candidate's title.
DeriveSlug ==
    /\ probe.kind = "title"
    /\ probe.applied = 0
    /\ probe' = [probe EXCEPT !.applied = 1, !.output = Slugify(probe.input)]
    /\ UNCHANGED <<connVars, storeVars, bookingVars, eventVars, loadVars>>

\* The slug is used as the title of another candidate and derived again.
DeriveSlugAgain ==
    /\ probe.kind = "title"
    /\ probe.applied = 1
    /\ probe' = [probe EXCEPT !.applied = 2, !.reapplied = Slugify(probe.output)]
    /\ UNCHANGED <<connVars, storeVars, bookingVars, eventVars, loadVars>>

\* Bound of the strings handed to the email validator.
MaxEmailLen == 6

\* The characters emails are built from: a plain character, the at sign,
\* the dot and a space.
EmailAlphabet == {"a", "@", ".", " "}

\* The emails of the Email Validation tests that the validator is asked
\* about.
\* 'a@b.c'
EmailABC ==
    <<"a", "@", "b", ".", "c">>
\* 'user@@example.com'
EmailTwoAts ==
    <<"u", "s", "e", "r", "@", "@", "e", "x", "a", "m", "p", "l", "e", ".",
      "c", "o", "m">>
\* 'user@.com'
EmailDotFirst ==
    <<"u", "s", "e", "r", "@", ".", "c", "o", "m">>
\* 'user@domain'
EmailNoDot ==
    <<"u", "s", "e", "r", "@", "d", "o", "m", "a", "i", "n">>
\* 'user @example.com'
EmailSpace ==
    <<"u", "s", "e", "r", " ", "@", "e", "x", "a", "m", "p", "l", "e", ".",
      "c", "o", "m">>
\* '@example.com'
EmailNoLocal ==
    <<"@", "e", "x", "a", "m", "p", "l", "e", ".", "c", "o", "m">>

EmailRejectedExamples ==
    {EmailTwoAts, EmailDotFirst, EmailNoDot, EmailSpace, EmailNoLocal, <<>>}

EmailProbeInputs ==
    StringsUpTo(EmailAlphabet, MaxEmailLen) \cup {EmailABC} \cup EmailRejectedExamples

EmailProbes == {[NoProbe EXCEPT !.kind = "email", !.input = e] : e \in EmailProbeInputs}

\* The email validator is asked about a value.
ApplyEmailValidator ==
    /\ probe.kind = "email"
    /\ probe.applied = 0
    /\ probe' = [probe EXCEPT !.applied = 1, !.output = EmailValidate(probe.input)]
    /\ UNCHANGED <<connVars, storeVars, bookingVars, eventVars, loadVars>>

\* Bound of the strings handed to the time pattern.
MaxTimeLen == 5

\* The characters times are built from: the digits that tell the cases of
\* the pattern apart, and the colon.
TimeAlphabet == {"0", "1", "2", "4", "6", ":"}

\* Times of the Time Validation tests: '23:59', '00:00', '8:45'
TimeAcceptedExamples ==
    {<<"2", "3", ":", "5", "9">>,
     <<"0", "0", ":", "0", "0">>,
     <<"8", ":", "4", "5">>}

\* '24:00', '23:60', '9:0', '9', '09:00 AM', ''
TimeRejectedExamples ==
    {<<"2", "4", ":", "0", "0">>,
     <<"2", "3", ":", "6", "0">>,
     <<"9", ":", "0">>,
     <<"9">>,
     <<"0", "9", ":", "0", "0", " ", "A", "M">>,
     <<>>}

TimeProbeInputs ==
    StringsUpTo(TimeAlphabet, MaxTimeLen) \cup TimeAcceptedExamples \cup TimeRejectedExamples

TimeProbes == {[NoProbe EXCEPT !.kind = "time", !.input = t] : t \in TimeProbeInputs}

\* The time pattern is tested on a value.
ApplyTimeRegex ==
    /\ probe.kind = "time"
    /\ probe.applied = 0
    /\ probe' = [probe EXCEPT !.applied = 1, !.output = TimeRegexTest(probe.input)]
    /\ UNCHANGED <<connVars, storeVars, bookingVars, eventVars, loadVars>>

\* Bounds of the values handed to the agenda and tags validators and of the
\* Event candidates.
MaxItems == 2
MaxDefects == 1

\* The values a validator of agenda or tags may be handed: arrays of items,
\* strings, null and undefined.
CollectionValues ==
    {Arr(items) : items \in StringsUpTo({"a", "t"}, MaxItems)}
        \cup {Str(chars) : chars \in StringsUpTo({"a", "t"}, MaxItems)}
        \cup {Null, Undefined}

CollectionProbes ==
    {[NoProbe EXCEPT !.kind = "collection", !.input = [field |-> f, value |-> v]] :
        f \in CollectionFields, v \in CollectionValues}

\* The validator of agenda or of tags is asked about a value.
ApplyCollectionValidator ==
    /\ probe.kind = "collection"
    /\ probe.applied = 0
    /\ probe' = [probe EXCEPT !.applied = 1,
                              !.output = CollectionValidate(probe.input.field,
                                                            probe.input.value)]
    /\ UNCHANGED <<connVars, storeVars, bookingVars, eventVars, loadVars>>

\* What a field of a candidate may hold in place of a valid value.
DefectValues(f) ==
    {Undefined, Str(<<>>), Str(<<" ">>)}
        \cup (IF f \in CollectionFields THEN {Null, Arr(<<>>), Str(<<"a">>)} ELSE {})
        \cup (IF f = "mode" THEN {Str(<<"x">>)} ELSE {})
        \cup (IF f = "time" THEN {Str(<<"9">>)} ELSE {})

\* The valid candidate with the fields of a set replaced by defects.
CandidatesWithDefectsIn(fields) ==
    {[f \in RequiredFields |-> IF f \in fields THEN choice[f] ELSE ValidCandidate[f]] :
        choice \in {c \in [fields -> UNION {DefectValues(f) : f \in fields}] :
                      \A f \in fields : c[f] \in DefectValues(f)}}

EventCandidates ==
    UNION {CandidatesWithDefectsIn(fields) :
             fields \in {fs \in SUBSET RequiredFields : Cardinality(fs) <= MaxDefects}}

EventProbes == {[NoProbe EXCEPT !.kind = "event", !.input = c] : c \in EventCandidates}

\* The candidate is saved as the first Event of the store.
SaveCandidate ==
    /\ probe.kind = "event"
    /\ EventSave(1, probe.input)

(***************************************************************************)
(* Specifications                                                          *)
(***************************************************************************)

NextConn ==
    \/ StartTask
    \/ Defer
    \/ EndJob
    \/ RunUserJob
    \/ \E c \in Callers : ConnectDBCall(c)
    \/ \E a \in AttemptIds : ConnectFulfils(a)
    \/ \E a \in AttemptIds, e \in Errors : ConnectRejects(a, e)
    \/ RunThen
    \/ ResumeFulfilled
    \/ ResumeRejected

InitConn == ConnIdle /\ StoreEmpty /\ BookingIdle /\ EventIdle /\ ProbeIdle

SpecConn == InitConn /\ [][NextConn]_vars

\* mongoose.connect attempt a settles, one way or the other.
Settles(a) == ConnectFulfils(a) \/ \E e \in Errors : ConnectRejects(a, e)

\* The event loop: running caller code returns, every queued microtask is run
\* in its turn, and (the caller's premise) every mongoose.connect attempt
\* settles. Settles(a) is disabled while queued microtasks are being run, so
\* its fairness is strong.
FairConn ==
    /\ WF_vars(EndJob)
    /\ WF_vars(RunUserJob)
    /\ WF_vars(RunThen)
    /\ WF_vars(ResumeFulfilled)
    /\ WF_vars(ResumeRejected)
    /\ \A a \in AttemptIds : SF_vars(Settles(a))

SpecConnFair == InitConn /\ [][NextConn]_vars /\ FairConn

\* The connection module from before its first evaluation, with reloads.
InitReload == Unloaded /\ StoreEmpty /\ BookingIdle /\ EventIdle /\ ProbeIdle

\* Caller code runs in tasks here: microtasks queued by callers change nothing
\* in what a module evaluation does.
NextReload ==
    \/ LoadModule
    \/ StartTask
    \/ EndJob
    \/ \E c \in Callers : ConnectDBCall(c)
    \/ \E a \in AttemptIds : ConnectFulfils(a)
    \/ \E a \in AttemptIds, e \in Errors : ConnectRejects(a, e)
    \/ RunThen
    \/ ResumeFulfilled
    \/ ResumeRejected

SpecReload == InitReload /\ [][NextReload]_vars

InitBooking == ConnIdle /\ StoreEmpty /\ BookingIdle /\ EventIdle /\ ProbeIdle

NextBooking ==
    \/ \E b \in BookingIds, eid \in EventIds \cup {NoId}, em \in EmailInputs :
          NewBooking(b, eid, TRUE, em)
    \/ \E b \in BookingIds, eid \in EventIds \cup {NoId} :
          NewBooking(b, eid, FALSE, <<>>)
    \/ \E b \in BookingIds, eid \in EventIds : SetEventId(b, eid)
    \/ \E b \in BookingIds, em \in EmailInputs : SetEmail(b, em)
    \/ \E b \in BookingIds : BookingSave(b)
    \/ \E b \in BookingIds : FindByIdReturns(b)
    \/ \E b \in BookingIds : BookingWrite(b)
    \/ \E e \in EventIds : EnvCreateEvent(e)
    \/ \E e \in EventIds : EnvDeleteEvent(e)

SpecBooking == InitBooking /\ [][NextBooking]_vars

\* The well-formed emails a candidate may carry.
ValidEmailInputs == {EmailPadded, <<"a", "@", "b", ".", "c">>}

\* The Booking operations on candidates with well-formed emails, in a store
\* from which no Event is ever deleted.
NextBookingKept ==
    \/ \E b \in BookingIds, eid \in EventIds, em \in ValidEmailInputs :
          NewBooking(b, eid, TRUE, em)
    \/ \E b \in BookingIds, eid \in EventIds : SetEventId(b, eid)
    \/ \E b \in BookingIds, em \in ValidEmailInputs : SetEmail(b, em)
    \/ \E b \in BookingIds : BookingSave(b)
    \/ \E b \in BookingIds : FindByIdReturns(b)
    \/ \E b \in BookingIds : BookingWrite(b)
    \/ \E e \in EventIds : EnvCreateEvent(e)

SpecBookingKept == InitBooking /\ [][NextBookingKept]_vars

InitEvent == ConnIdle /\ StoreEmpty /\ BookingIdle /\ EventIdle /\ ProbeIdle

NextEvent ==
    \/ Tick
    \/ \E p \in Creations, title \in Titles : EventSave(p, CandidateTitled(title))
    \/ \E p \in Creations : SlugLookup(p)
    \/ \E p \in Creations : EventWrite(p)

SpecEvent == InitEvent /\ [][NextEvent]_vars

InitSchema ==
    /\ ConnIdle /\ StoreEmpty /\ BookingIdle /\ EventIdle
    /\ probe \in TitleProbes \cup EmailProbes \cup TimeProbes \cup CollectionProbes
                   \cup EventProbes

NextSchema ==
    \/ DeriveSlug
    \/ DeriveSlugAgain
    \/ ApplyEmailValidator
    \/ ApplyTimeRegex
    \/ ApplyCollectionValidator
    \/ SaveCandidate
    \/ SlugLookup(1)
    \/ EventWrite(1)

SpecSchema == InitSchema /\ [][NextSchema]_vars

(***************************************************************************)
(* Properties of connectDB                                                 *)
(***************************************************************************)

\* The mongoose.connect attempts that have not settled yet.
InFlight == {a \in 1..Len(attempts) : attempts[a].q = "pending"}

\* C1: at most one mongoose.connect attempt is in flight at any time; a call
\* that found cached.promise set awaits it without calling mongoose.connect;
\* every call that resolves receives the mongoose instance.
C1_OneAttemptInFlight ==
    /\ Cardinality(InFlight) <= 1
    /\ \A c \in Callers :
          /\ call[c].pc = "resolved" => call[c].result = Mongoose
          /\ call[c].pc = "awaiting" => call[c].awaited \in 1..Len(attempts)

\* C2: in the step in which a connectDB call rejects, cached.promise is left
\* null and cached.conn is still null (so that the next call connects anew).
C2_FailureNotCached ==
    [][\A c \in Callers :
          (call[c].pc = "awaiting" /\ call'[c].pc = "rejected")
              => (cached'.promise = NoPromise /\ cached'.conn = NULL)]_vars

AnyResolved == \E c \in Callers : call[c].pc = "resolved"

\* C3: once a connectDB call has resolved, cached.conn is set and never
\* changes; from then on every new call resolves at once with that instance
\* and mongoose.connect is not called again.
C3_ConnStable ==
    /\ [](AnyResolved => cached.conn = Mongoose)
    /\ [][cached.conn # NULL =>
            /\ cached'.conn = cached.conn
            /\ Len(attempts') = Len(attempts)
            /\ \A c \in Callers :
                  (call[c].pc # "awaiting" /\ call'[c] # call[c])
                      => (call'[c].pc = "resolved" /\ call'[c].result = cached.conn)]_vars

\* C3 witness: a call made after the connection was cached returned it
\* without awaiting anything.
C3_Witness ==
    /\ cached.conn = Mongoose
    /\ Len(attempts) = 1
    /\ \E c \in Callers :
          call[c].pc = "resolved" /\ call[c].awaited = 0 /\ call[c].result = Mongoose

\* C4: one connectDB call makes at most one mongoose.connect call, and only in
\* its synchronous part; when the attempt it awaits rejects with E the call
\* rejects with E: it does not resolve and does not connect again.
C4_ErrorPropagated ==
    /\ [](\A c \in Callers :
            call[c].pc = "rejected"
                => /\ attempts[call[c].awaited].p = "rejected"
                   /\ call[c].result = attempts[call[c].awaited].value
                   /\ call[c].result \in Errors)
    /\ [][/\ Len(attempts') <= Len(attempts) + 1
          /\ \A c \in Callers :
                (call[c].pc = "awaiting" /\ call'[c] # call[c])
                    => /\ Len(attempts') = Len(attempts)
                       /\ attempts[call[c].awaited].p = "rejected"
                              => call'[c].pc = "rejected"]_vars

\* C4 witness: a call that started an attempt was rejected with the attempt's
\* error E2.
C4_Witness ==
    \E c \in Callers :
        /\ call[c].pc = "rejected"
        /\ call[c].triggered = 1
        /\ call[c].result = "E2"
        /\ attempts[call[c].awaited].value = "E2"
(***************************************************************************)
(* Properties of the Booking pre-save hook                                 *)
(***************************************************************************)

\* C5: when the lookup of a newly set eventId finds no Event, the save fails
\* with 'Referenced event does not exist', the hook does not go on to the
\* write, and the Booking collection is unchanged.
C5_DanglingRejected ==
    /\ [](\A b \in BookingIds :
            booking[b].pc = "lookup" => IsModified(booking[b], "eventId"))
    /\ [][\A b \in BookingIds :
            (/\ booking[b].pc = "lookup"
             /\ booking'[b].pc # "lookup"
             /\ FindById(booking[b].eventId) = {})
                => /\ booking'[b].outcome = DanglingMsg
                   /\ booking'[b].pc = "idle"
                   /\ bookingDocs' = bookingDocs]_vars

\* C5 witness: a new Booking whose save failed with the dangling-reference
\* error after one lookup, and which is not in the collection.
C5_Witness ==
    \E b \in BookingIds :
        /\ booking[b].outcome = DanglingMsg
        /\ booking[b].lookups = 1
        /\ booking[b].isNew
        /\ FindById(booking[b].eventId) = {}
        /\ ~\E r \in bookingDocs : r.id = b

\* C6: a save that passes validation looks the Event up exactly when eventId
\* is modified, which it always is on the first save; a save with eventId
\* unmodified issues no lookup and goes to the write, whether or not the
\* referenced Event exists.
C6_CheckOnlyWhenModified ==
    [][\A b \in BookingIds :
          (booking[b].pc = "idle" /\ booking'[b].pc # "idle")
              => /\ booking'[b].pc = "lookup" <=> "eventId" \in booking[b].modified
                 /\ booking'[b].pc = "write" <=> "eventId" \notin booking[b].modified
                 /\ booking'[b].lookups = (IF "eventId" \in booking[b].modified THEN 1 ELSE 0)
                 /\ booking[b].isNew => booking'[b].pc = "lookup"]_vars

\* C6 witness: a stored Booking saved again with eventId unmodified: no lookup
\* was issued and it was written although its Event is gone.
C6_Witness ==
    \E b \in BookingIds :
        /\ booking[b].outcome = "saved"
        /\ booking[b].lookups = 0
        /\ booking[b].wroteDangling
        /\ \E r \in bookingDocs : r.id = b /\ FindById(r.eventId) = {}

\* C7: the write that follows a successful existence check is made whatever
\* the Event collection holds by then, and no step of the validator removes
\* a stored Booking: a Booking written after its Event was deleted stays.
C7_RaceNotClosed ==
    [][/\ \A b \in BookingIds :
            (booking[b].pc = "write" /\ booking'[b].pc # "write")
                => /\ booking'[b].outcome = "saved"
                   /\ [id |-> b, eventId |-> booking[b].eventId,
                       email |-> booking[b].email] \in bookingDocs'
       /\ \A r \in bookingDocs : \E r2 \in bookingDocs' : r2.id = r.id]_vars

\* C7 witness: a Booking whose existence check succeeded in the same save and
\* whose Event was absent when it was written.
C7_Witness ==
    \E b \in BookingIds :
        /\ booking[b].outcome = "saved"
        /\ booking[b].lookups = 1
        /\ booking[b].wroteDangling
        /\ \E r \in bookingDocs : r.id = b /\ FindById(r.eventId) = {}
(***************************************************************************)
(* Properties of Event creation                                            *)
(***************************************************************************)

\* C8: no two stored Events have the same slug, also when two creations
\* whose titles derive the same slug both pass the uniqueness read before
\* either writes: the unique index rejects the second write.
C8_SlugUnique ==
    /\ \A d1, d2 \in eventDocs : d1.slug = d2.slug => d1 = d2
    /\ \A p \in Creations :
          creation[p].pc = "done" <=> [id |-> p, slug |-> creation[p].slug] \in eventDocs

\* C8 witness: two creations with the same base slug both passed the
\* uniqueness read without seeing the other; one is stored under the base
\* slug and the other's write was rejected by the unique index.
C8_Witness ==
    \E p, q \in Creations :
        /\ p # q
        /\ creation[p].base = creation[q].base
        /\ ~creation[p].sawExisting /\ ~creation[q].sawExisting
        /\ creation[p].pc = "done" /\ creation[p].slug = creation[p].base
        /\ creation[q].rejections >= 1

\* C9: an Event stored after its uniqueness read found its base slug taken
\* has the slug base + "-" + the digits of a clock value: not the base slug,
\* not empty, and no other stored Event's slug.
C9_Disambiguated ==
    \A p \in Creations :
        (creation[p].pc = "done" /\ creation[p].sawExisting)
            => /\ \E t \in 0..now :
                    creation[p].slug = creation[p].base \o <<"-">> \o Digits(t)
               /\ creation[p].slug # creation[p].base
               /\ creation[p].slug # <<>>
               /\ \A d \in eventDocs : d.id # p => d.slug # creation[p].slug

\* C9 witness: two stored Events whose titles both normalize to the empty
\* slug: the first is stored as "" and the second as "-" and a clock value.
C9_Witness ==
    \E p, q \in Creations :
        /\ creation[p].pc = "done" /\ creation[q].pc = "done"
        /\ creation[p].base = <<>> /\ creation[q].base = <<>>
        /\ creation[p].slug = <<>>
        /\ creation[q].sawExisting
        /\ Len(creation[q].slug) = 2 /\ creation[q].slug[1] = "-"

\* C10: a write rejected by the unique index leaves the store as it was; the
\* first rejection regenerates the slug from the base slug and the current
\* time and the write is tried again, the second one fails the save with the
\* unique-constraint error: there is never a second retry.
C10_RetryOnce ==
    /\ [](\A p \in Creations :
            /\ creation[p].retries <= 1
            /\ creation[p].pc = "failed"
                  => /\ creation[p].retries = 1
                     /\ creation[p].rejections = 2
                     /\ creation[p].error = UniqueViolationMsg
                     /\ ~\E d \in eventDocs : d.id = p)
    /\ [][\A p \in Creations :
            (/\ creation[p].pc = "write"
             /\ creation'[p] # creation[p]
             /\ \E d \in eventDocs : d.slug = creation[p].slug)
                => /\ eventDocs' = eventDocs
                   /\ creation[p].retries = 0
                         => /\ creation'[p].pc = "write"
                            /\ creation'[p].retries = 1
                            /\ creation'[p].slug =
                                  creation[p].base \o <<"-">> \o Digits(now)
                   /\ creation[p].retries = 1
                         => /\ creation'[p].pc = "failed"
                            /\ creation'[p].error = UniqueViolationMsg]_vars

\* C10 witness: a creation whose write and whose single retry were both
\* rejected, and which stored nothing.
C10_Witness ==
    \E p \in Creations :
        /\ creation[p].pc = "failed"
        /\ creation[p].rejections = 2
        /\ creation[p].retries = 1
        /\ ~\E d \in eventDocs : d.id = p

(***************************************************************************)
(* Properties of the slug derivation                                       *)
(***************************************************************************)

\* The characters of a string at a set of positions, in order.
Pick(str, positions) ==
    LET nth(k) == CHOOSE i \in positions : Cardinality({j \in positions : j < i}) = k - 1
    IN  [k \in 1..Cardinality(positions) |-> str[nth(k)]]

\* A string with every maximal run of characters of a class replaced by one
\* hyphen: the first character of a run becomes the hyphen, the others go.
RunsToHyphen(str, class) ==
    LET marked == [i \in 1..Len(str) |-> IF str[i] \in class THEN "-" ELSE str[i]]
    IN  Pick(marked, {i \in 1..Len(str) :
                        str[i] \in class => (i = 1 \/ str[i - 1] \notin class)})

\* A string without the characters of a class at its two ends: what stays
\* is between its first and its last character outside the class.
WithoutEnds(str, class) ==
    Pick(str, {i \in 1..Len(str) :
                 /\ \E j \in 1..i : str[j] \notin class
                 /\ \E j \in i..Len(str) : str[j] \notin class})

\* The six steps of the slug derivation, in order.
SlugSteps(title) ==
    LET lowered == ToLowerCase(title)
        trimmed == WithoutEnds(lowered, Whitespace)
        cleaned == Pick(trimmed, {i \in 1..Len(trimmed) :
                                    trimmed[i] \in WordChars \cup Whitespace \cup {"-"}})
        spaced == RunsToHyphen(cleaned, Whitespace)
        hyphened == RunsToHyphen(spaced, {"-"})
    IN  WithoutEnds(hyphened, {"-"})

\* The slugs the slug generation tests expect.
\* 'aws-reinvent-2025'
SlugAws ==
    <<"a", "w", "s", "-", "r", "e", "i", "n", "v", "e", "n", "t", "-", "2",
      "0", "2", "5">>
\* 'event-with-spaces'
SlugSpaces ==
    <<"e", "v", "e", "n", "t", "-", "w", "i", "t", "h", "-", "s", "p", "a",
      "c", "e", "s">>
\* 'event-title'
SlugHyphens ==
    <<"e", "v", "e", "n", "t", "-", "t", "i", "t", "l", "e">>
\* 'vnement-spcial-2025'
SlugUnicode ==
    <<"v", "n", "e", "m", "e", "n", "t", "-", "s", "p", "c", "i", "a", "l",
      "-", "2", "0", "2", "5">>

ExpectedSlugs ==
    {<<TitleAws, SlugAws>>, <<TitleSpaces, SlugSpaces>>, <<TitleHyphens, SlugHyphens>>,
     <<TitleSymbols, <<>> >>, <<TitleUnicode, SlugUnicode>>}

\* C11: the slug derived from a title is the result of the six steps applied
\* in order (lowercase, trim, remove what is not a word character, whitespace
\* or hyphen, whitespace runs to one hyphen, hyphen runs to one hyphen, strip
\* the hyphens at the ends), and the titles of the tests get the slugs the
\* tests expect: 'AWS re:Invent 2025' gives 'aws-reinvent-2025',
\* 'Event   With   Spaces' gives 'event-with-spaces', '---Event Title---'
\* gives 'event-title' and '!@#$%^&*()' gives the empty string.
C11_SlugIsTheSixSteps ==
    (probe.kind = "title" /\ probe.applied >= 1) =>
        /\ probe.output = SlugSteps(probe.input)
        /\ \A ex \in ExpectedSlugs : probe.input = ex[1] => probe.output = ex[2]

\* The slug of '---Event Title---' has been derived: every step but the
\* removal has changed the string.
C11_Witness ==
    /\ probe.kind = "title"
    /\ probe.applied = 1
    /\ probe.input = TitleHyphens
    /\ probe.output = SlugHyphens

\* C12: slug derivation is idempotent: the slug derived from a derived slug is
\* that slug (slugify(slugify(t)) = slugify(t)). The derivation reads nothing
\* but the title, so two derivations from one title agree.
C12_SlugIdempotent ==
    (probe.kind = "title" /\ probe.applied = 2) => probe.reapplied = probe.output

\* A slug that differs from its title and is not empty has been derived
\* again.
C12_Witness ==
    /\ probe.kind = "title"
    /\ probe.applied = 2
    /\ probe.output # <<>>
    /\ probe.output # probe.input
    /\ probe.reapplied = probe.output
    /\ \E i \in 1..Len(probe.input) : probe.input[i] = "-"
    /\ \E i \in 1..Len(probe.input) : probe.input[i] = " "

\* The characters of a string that are in a class, in order.
KeepOnly(str, class) == Pick(str, {i \in 1..Len(str) : str[i] \in class})

\* [A-Za-z0-9_]
IsAsciiWord(ch) ==
    \/ \E i \in 1..Len(AsciiLower) : ch \in {AsciiLower[i], AsciiUpper[i]}
    \/ ch \in DigitChars
    \/ ch = "_"

\* C13 as stated: step 3 removes exactly the characters that are not a
\* Unicode word character, whitespace or hyphen, so every Unicode word
\* character of the title, a letter such as 'é' included, is kept in the
\* slug (in lower case).
C13_UnicodeWordKept ==
    (probe.kind = "title" /\ probe.applied >= 1) =>
        /\ KeepOnly(probe.output, UnicodeWordChars)
              = KeepOnly(ToLowerCase(probe.input), UnicodeWordChars)
        /\ \A i \in 1..Len(probe.output) : probe.output[i] \in UnicodeWordChars \cup {"-"}

\* C13, amended: step 3 removes exactly the characters that are not an ASCII
\* word character (a letter a-z or A-Z, a digit or the underscore),
\* whitespace or hyphen: every ASCII word character of the title is kept in
\* the slug (in lower case), and every other letter, such as 'é', is
\* removed.
C13_AsciiWordKept ==
    (probe.kind = "title" /\ probe.applied >= 1) =>
        /\ SelectSeq(probe.output, IsAsciiWord)
              = SelectSeq(ToLowerCase(probe.input), IsAsciiWord)
        /\ \A i \in 1..Len(probe.output) :
              IsAsciiWord(probe.output[i]) \/ probe.output[i] = "-"
        /\ \A i \in 1..Len(probe.output) : probe.output[i] \notin NonAsciiLetters

\* The slug of 'Événement Spécial 2025' has been derived: it is
\* 'vnement-spcial-2025', without the two letters 'é' of the lowered title.
C13_Witness ==
    /\ probe.kind = "title"
    /\ probe.applied >= 1
    /\ probe.input = TitleUnicode
    /\ probe.output = SlugUnicode
    /\ Len(KeepOnly(ToLowerCase(probe.input), {"é"})) = 3

(***************************************************************************)
(* Properties of the Booking schema                                        *)
(***************************************************************************)

\* No whitespace, exactly one at sign, something before it, and after it a
\* domain with a dot that is neither its first nor its last character.
EmailWellFormed(e) ==
    /\ \A i \in 1..Len(e) : e[i] \notin Whitespace
    /\ Cardinality({i \in 1..Len(e) : e[i] = "@"}) = 1
    /\ LET at == CHOOSE i \in 1..Len(e) : e[i] = "@"
       IN  /\ at > 1
           /\ \E j \in (at + 2)..(Len(e) - 1) : e[j] = "."

EmailNormalised ==
    <<"u", "s", "e", "r", "@", "e", "x", "a", "m", "p", "l", "e", ".", "c",
      "o", "m">>

\* No whitespace at either end and no upper-case letter.
TrimmedAndLowered(e) ==
    /\ e # <<>> => (e[1] \notin Whitespace /\ e[Len(e)] \notin Whitespace)
    /\ \A i \in 1..Len(e), k \in 1..Len(AsciiUpper) : e[i] # AsciiUpper[k]

\* C15: every persisted Booking has an email that is trimmed, lowercased and
\* matches the email pattern; the email of a Booking object is trimmed and
\* lowercased as soon as it is assigned, hence before the pattern is
\* checked, so the candidate '  User@Example.COM ' is stored as
\* 'user@example.com'.
C15_StoredEmailNormalised ==
    /\ \A r \in bookingDocs : TrimmedAndLowered(r.email) /\ EmailWellFormed(r.email)
    /\ \A b \in BookingIds : TrimmedAndLowered(booking[b].email)
    /\ \A b \in BookingIds :
          booking[b].outcome = "saved" =>
              \E r \in bookingDocs : r.id = b /\ r.email = booking[b].email

\* A Booking whose email was given with padding and upper-case letters is
\* stored with the email 'user@example.com'.
C15_Witness ==
    \E r \in bookingDocs :
        /\ r.email = EmailNormalised
        /\ r.email # EmailPadded
        /\ booking[r.id].outcome = "saved"

\* C16: a Booking candidate without eventId fails with 'Event ID is
\* required' and one without email fails with 'Email is required'; in both
\* cases the save stops at validation and the Booking is not persisted.
C16_RequiredFields ==
    /\ \A b \in BookingIds :
          (booking[b].exists /\ booking[b].pc = "idle" /\ booking[b].outcome # "none") =>
              /\ booking[b].eventId = NoId =>
                    /\ booking[b].outcome = "ValidationError"
                    /\ RequiredEventIdMsg \in booking[b].errors
                    /\ ~\E r \in bookingDocs : r.id = b
              /\ ~booking[b].hasEmail =>
                    /\ booking[b].outcome = "ValidationError"
                    /\ RequiredEmailMsg \in booking[b].errors
                    /\ ~\E r \in bookingDocs : r.id = b
    /\ \A b \in BookingIds :
          booking[b].pc # "idle" => (booking[b].eventId # NoId /\ booking[b].hasEmail)
    /\ \A r \in bookingDocs : r.eventId # NoId /\ r.email # <<>>

\* A candidate with neither eventId nor email has been saved: the save
\* failed with both messages and nothing was stored.
C16_Witness ==
    \E b \in BookingIds :
        /\ booking[b].exists
        /\ booking[b].eventId = NoId
        /\ ~booking[b].hasEmail
        /\ booking[b].outcome = "ValidationError"
        /\ booking[b].errors = {RequiredEventIdMsg, RequiredEmailMsg}
        /\ bookingDocs = {}

\* C20: no Booking operation changes the Event collection: every step that
\* changes a Booking object or the Booking collection (construction,
\* assignment, validation, the hook's findById, the write), whether it ends
\* in success or in failure, leaves the set of Event records and their
\* fields as they were; a save reads the Event collection at most once, and
\* exactly once when eventId is newly set or changed.
C20_EventsUntouched ==
    /\ [][(booking' # booking \/ bookingDocs' # bookingDocs) => eventDocs' = eventDocs]_vars
    /\ [](\A b \in BookingIds :
            /\ booking[b].lookups <= 1
            /\ booking[b].pc = "write" =>
                  (booking[b].lookups = 1 <=> "eventId" \in booking[b].modified))

\* A Booking has been saved after one read of the Event collection, and its
\* Event is still stored.
C20_Witness ==
    \E b \in BookingIds :
        /\ booking[b].outcome = "saved"
        /\ booking[b].lookups = 1
        /\ ~booking[b].wroteDangling
        /\ FindById(booking[b].eventId) # {}
        /\ \E r \in bookingDocs : r.id = b

(***************************************************************************)
(* Properties of the Event schema                                          *)
(***************************************************************************)

RECURSIVE Number(_)
\* The number a string of decimal digits writes.
Number(digits) ==
    IF digits = <<>> THEN 0
    ELSE LET last == digits[Len(digits)]
             value == CHOOSE n \in 0..9 : Digits(n) = <<last>>
         IN  10 * Number(SubSeq(digits, 1, Len(digits) - 1)) + value

\* An hour from 0 to 23 in one or two digits, a colon, a minute from 0 to 59
\* in two digits.
TimeWellFormed(t) ==
    \E k \in 1..Len(t) :
        LET hour == SubSeq(t, 1, k - 1)
            minute == SubSeq(t, k + 1, Len(t))
        IN  /\ t[k] = ":"
            /\ Len(hour) \in {1, 2}
            /\ Len(minute) = 2
            /\ \A i \in 1..Len(t) : i # k => t[i] \in DigitChars
            /\ Number(hour) \in 0..23
            /\ Number(minute) \in 0..59

\* C19: the time pattern accepts a string if and only if it is an hour from 0
\* to 23 written with one or two digits, a colon, and a minute from 00 to 59
\* written with two digits: '23:59', '00:00' and '8:45' are accepted, and
\* '24:00', '23:60', '9:0', '9', '09:00 AM' and the empty string are rejected.
C19_TimePattern ==
    (probe.kind = "time" /\ probe.applied = 1) =>
        /\ probe.output <=> TimeWellFormed(probe.input)
        /\ probe.input \in TimeAcceptedExamples => probe.output
        /\ probe.input \in TimeRejectedExamples => ~probe.output

\* The pattern has been tested on '24:00' and has rejected it.
C19_Witness ==
    /\ probe.kind = "time"
    /\ probe.applied = 1
    /\ probe.input = <<"2", "4", ":", "0", "0">>
    /\ ~probe.output

\* C17: an Event candidate in which a required field is absent, or is a
\* string that is empty after trimming, fails with MissingField naming that
\* field, and the Event is not persisted.
C17_MissingField ==
    (probe.kind = "event" /\ (creation[1].pc # "idle" \/ creation[1].error # "none")) =>
        \A f \in RequiredFields :
            LET v == probe.input[f]
            IN  (\/ v.type = "undefined"
                 \/ v.type = "string" /\ WithoutEnds(v.items, Whitespace) = <<>>) =>
                    /\ creation[1].error = "ValidationError"
                    /\ \E e \in creation[1].errors : e.kind = "MissingField" /\ e.field = f
                    /\ creation[1].pc = "idle"
                    /\ eventDocs = {}

\* A candidate whose time is a blank string has been saved: the save failed
\* with MissingField("time") alone and no Event is stored.
C17_Witness ==
    /\ probe.kind = "event"
    /\ probe.input["time"] = Str(<<" ">>)
    /\ creation[1].error = "ValidationError"
    /\ creation[1].errors = {MissingField("time")}
    /\ eventDocs = {}

\* C18: the validators of agenda and tags accept a value if and only if it
\* is a sequence with at least one element; an empty sequence, null,
\* undefined and a value that is not a sequence (a string) are rejected with
\* EmptyCollection, a sequence of one or more items is accepted.
C18_CollectionValidator ==
    (probe.kind = "collection" /\ probe.applied = 1) =>
        LET v == probe.input.value
        IN  /\ probe.output.accepted <=> (v.type = "array" /\ v.items # <<>>)
            /\ ~probe.output.accepted =>
                  /\ probe.output.error.kind = "EmptyCollection"
                  /\ probe.output.error.field = probe.input.field
            /\ v \in {Arr(<<>>), Null, Undefined, Str(<<"a">>)} => ~probe.output.accepted
            /\ v \in {Arr(<<"a">>), Arr(<<"a", "t">>)} => probe.output.accepted

\* The validator of tags has been asked about a string and has rejected it.
C18_Witness ==
    /\ probe.kind = "collection"
    /\ probe.applied = 1
    /\ probe.input = [field |-> "tags", value |-> Str(<<"a", "t">>)]
    /\ ~probe.output.accepted
    /\ probe.output.error = EmptyCollection("tags")

(***************************************************************************)
(* Properties of the Booking reference                                     *)
(***************************************************************************)

\* Every stored Booking's eventId is the id of a stored Event.
AllResolve == \A r \in bookingDocs : FindById(r.eventId) # {}

\* The step in which the save of Booking b writes it.
Writes(b) == booking[b].pc = "write" /\ booking'[b].pc # "write"

\* C21 as stated: if no Event is ever deleted, every stored Booking's eventId
\* resolves to a stored Event, and a Booking is written only after a lookup
\* of its eventId, made during that same save, found an Event.
C21_WrittenAfterLookup ==
    /\ []AllResolve
    /\ [][\A b \in BookingIds : Writes(b) => booking[b].lookups = 1]_vars

\* C21, amended: if no Event is ever deleted, every stored Booking's eventId
\* resolves to a stored Event: an eventId is written only after a lookup of
\* it, made during that same save, found an Event; a save that leaves
\* eventId unmodified writes the Booking without a lookup, and the eventId
\* it writes is the one already stored.
C21_ReferenceChecked ==
    /\ []AllResolve
    /\ [][\A b \in BookingIds :
            Writes(b) =>
                \/ booking[b].lookups = 1
                \/ /\ booking[b].lookups = 0
                   /\ \E r \in bookingDocs : r.id = b /\ r.eventId = booking[b].eventId]_vars

\* A stored Booking has been saved again with another email: it was written
\* without a lookup, and its Event is stored.
C21_Witness ==
    \E b \in BookingIds :
        /\ booking[b].outcome = "saved"
        /\ booking[b].lookups = 0
        /\ booking[b].email = <<"a", "@", "b", ".", "c">>
        /\ \E r \in bookingDocs :
              r.id = b /\ r.email = booking[b].email /\ FindById(r.eventId) # {}
        /\ AllResolve

\* 'event-2025-tech-conference'
SlugSpecial ==
    <<"e", "v", "e", "n", "t", "-", "2", "0", "2", "5", "-", "t", "e", "c",
      "h", "-", "c", "o", "n", "f", "e", "r", "e", "n", "c", "e">>

\* C22: the slug derived from a title consists only of ASCII lower-case
\* letters, digits, underscores and hyphens, holds no whitespace and no two
\* consecutive hyphens, and neither starts nor ends with a hyphen; letters
\* outside ASCII are removed, not kept or transliterated ('Événement Spécial
\* 2025' gives 'vnement-spcial-2025'), and none of '@', '!', '#', '$'
\* survives.
C22_SlugShape ==
    (probe.kind = "title" /\ probe.applied >= 1) =>
        LET slug == probe.output
        IN  /\ \A i \in 1..Len(slug) :
                  \/ \E k \in 1..Len(AsciiLower) : slug[i] = AsciiLower[k]
                  \/ slug[i] \in DigitChars \cup {"_", "-"}
            /\ \A i \in 1..Len(slug) : slug[i] \notin Whitespace \cup {"@", "!", "#", "$"}
            /\ \A i \in 1..(Len(slug) - 1) : ~(slug[i] = "-" /\ slug[i + 1] = "-")
            /\ slug # <<>> => (slug[1] # "-" /\ slug[Len(slug)] # "-")
            /\ probe.input = TitleUnicode => slug = SlugUnicode
            /\ probe.input = TitleSpecial => slug = SlugSpecial

\* The slug of 'Event @ 2025! #Tech $Conference' has been derived: it is
\* 'event-2025-tech-conference'.
C22_Witness ==
    /\ probe.kind = "title"
    /\ probe.applied >= 1
    /\ probe.input = TitleSpecial
    /\ probe.output = SlugSpecial


\* A step that evaluates the module.
Loads == loads' = loads + 1

\* The synchronous part of a connectDB call of caller c (the only step that
\* changes a call while caller code runs).
Calls(c) == running /\ call'[c] # call[c]

Catches(c) == call[c].pc = "awaiting" /\ call'[c].pc = "rejected"

\* cached.promise is the promise of an attempt other than a, still in flight.
NewerInFlight(a) ==
    /\ cached.promise # NoPromise
    /\ cached.promise # a
    /\ attempts[cached.promise].p = "pending"

\* C24: under every interleaving, the error handler of a call that awaited a
\* failed attempt never clears the promise of a newer attempt that is still in
\* flight.
C24_NewerAttemptKept ==
    [][\A c \in Callers :
        (Catches(c) /\ NewerInFlight(call[c].awaited))
            => cached'.promise = cached.promise]_vars

Completed(c) == call[c].pc \in {"resolved", "rejected"}

\* C25: provided every mongoose.connect attempt settles, every connectDB call
\* completes: each call awaiting an attempt, sharing it or not, ends resolved or
\* rejected; a resolved call holds the non-null mongoose instance, never null;
\* a rejected call holds the error of the attempt it awaited.
C25_EveryCallCompletes ==
    /\ \A c \in Callers : (call[c].pc = "awaiting") ~> Completed(c)
    /\ [](\A c \in Callers :
            /\ call[c].pc = "resolved"
                => call[c].result # NULL /\ call[c].result = Mongoose
            /\ call[c].pc = "rejected"
                => /\ attempts[call[c].awaited].p = "rejected"
                   /\ call[c].result = attempts[call[c].awaited].value)

\* Two calls shared one attempt that was rejected, and both have completed with
\* its error.
C25_Witness ==
    \E c, d \in Callers :
        /\ c # d
        /\ call[c].pc = "rejected" /\ call[d].pc = "rejected"
        /\ call[c].awaited = call[d].awaited
        /\ call[c].result = call[d].result
        /\ call[c].result \in Errors

\* The fields of Booking document d are all valid: eventId present, email
\* present and well formed.
FieldsValid(d) == d.eventId # NoId /\ d.hasEmail /\ EmailWellFormed(d.email)

FieldMsgs == {RequiredEventIdMsg, RequiredEmailMsg, InvalidEmailMsg}

\* The save() of document b answers at once (without suspending on the store).
AnswersAtOnce(b) ==
    /\ booking[b].pc = "idle" /\ booking'[b].pc = "idle"
    /\ booking[b].outcome = "none" /\ booking'[b].outcome # "none"

\* C26: field validation precedes the referential check: the save of a Booking
\* whose eventId is absent, or whose email is absent or malformed, fails with
\* the field errors and issues no Event lookup, whether or not its eventId
\* resolves; the dangling-reference error is returned only to documents whose
\* fields are all valid, after their lookup.
C26_ValidationFirst ==
    /\ [](\A b \in BookingIds :
            ~FieldsValid(booking[b])
                => /\ booking[b].pc = "idle"
                   /\ booking[b].lookups = 0
                   /\ booking[b].outcome \in {"none", "ValidationError"})
    /\ [](\A b \in BookingIds :
            /\ booking[b].outcome = DanglingMsg
                  => FieldsValid(booking[b]) /\ booking[b].lookups = 1
            /\ booking[b].outcome = "ValidationError"
                  => /\ ~FieldsValid(booking[b])
                     /\ booking[b].errors # {}
                     /\ booking[b].errors \subseteq FieldMsgs)
    /\ [][\A b \in BookingIds :
            AnswersAtOnce(b)
                => /\ ~FieldsValid(booking[b])
                   /\ booking'[b].outcome = "ValidationError"
                   /\ booking'[b].lookups = 0
                   /\ booking[b].eventId = NoId
                         <=> RequiredEventIdMsg \in booking'[b].errors
                   /\ (~booking[b].hasEmail \/ booking[b].email = <<>>)
                         <=> RequiredEmailMsg \in booking'[b].errors
                   /\ InvalidEmailMsg \in booking'[b].errors
                         => ~EmailWellFormed(booking[b].email)]_vars

\* A candidate with a malformed email and an eventId that resolves to no Event
\* has been saved: it failed with the email error and no lookup was issued.
C26_Witness ==
    \E b \in BookingIds :
        /\ booking[b].outcome = "ValidationError"
        /\ booking[b].errors = {InvalidEmailMsg}
        /\ booking[b].eventId # NoId
        /\ "eventId" \in booking[b].modified
        /\ FindById(booking[b].eventId) = {}
        /\ booking[b].lookups = 0
====
